---- MODULE Spec2Model ----
(***************************************************************************)
(* The host telemetry agent of src/src/main.rs: the Process Singleton      *)
(* Guard (check_running_process) run by several operating-system processes *)
(* that share one pid file, and main's dispatch into the sampling loop.    *)
(*                                                                         *)
(* A process is identified by its pid.  The process table, the pid file    *)
(* (a path bound to an inode, inodes holding byte sequences) and each      *)
(* process's position in main / check_running_process are the state.      *)
(* Every access to the shared file system or process table is one step;    *)
(* purely local computation is folded into the step that follows it.       *)
(* writeln! on the unbuffered File is modelled as one write at the         *)
(* handle's offset 0.                                                      *)
(***************************************************************************)
EXTENDS Integers, Sequences, FiniteSets, TLC

\* ------------------------------------------------------------------ bounds
\* number of processes launched in one behaviour
MaxProcs == 2
\* number of processes already running on the host when a behaviour of the
\* sequential specification starts
MaxHost == 2
\* largest interval (seconds) a configuration names
MaxInterval == 2
\* number of records a behaviour hands to the sink
MaxEmit == 2

\* ---------------------------------------------------------------- universe
\* pids in the order the kernel hands them out (pids wrap around, so the
\* order is not the numeric one)
LaunchTable == <<123, 7, 3, 45>>
HostTable == <<5, 88, 240, 16>>
LaunchPids == {LaunchTable[i] : i \in 1..MaxProcs}
HostPids == {HostTable[i] : i \in 1..MaxHost}
Pids == LaunchPids \cup HostPids
\* the pid of an owner of an earlier run that is no longer running
StalePid == 99
NoPid == 0
NoInode == 0
InoIds == 1..(MaxProcs + 1)
\* start times (seconds)
Times == 0..(MaxProcs + MaxHost - 1)

DigitChars == <<"0", "1", "2", "3", "4", "5", "6", "7", "8", "9">>
IsDigit(c) == \E i \in 1..10 : DigitChars[i] = c
DigitVal(c) == (CHOOSE i \in 1..10 : DigitChars[i] = c) - 1
IsWhitespace(c) == c \in {" ", "\n", "\t", "\r"}

\* u32::MAX = 4294967295, kept as quotient and remainder by 10
U32MaxDiv10 == 429496729
U32MaxMod10 == 5
ParseErr == -1

\* ------------------------------------------------------------ pure helpers
\* Display for u32: the decimal digits, most significant first
RECURSIVE Fmt(_)
Fmt(n) == IF n < 10 THEN <<DigitChars[n + 1]>>
          ELSE Fmt(n \div 10) \o <<DigitChars[(n % 10) + 1]>>

\* (a formatter that emits the least significant digit first)
RECURSIVE FmtReversed(_)
FmtReversed(n) == IF n < 10 THEN <<DigitChars[n + 1]>>
                  ELSE <<DigitChars[(n % 10) + 1]>> \o FmtReversed(n \div 10)
WritelnReversed(n) == FmtReversed(n) \o <<"\n">>

\* writeln!(file, "{}", pid): the digits and a newline
Writeln(n) == Fmt(n) \o <<"\n">>

\* str::trim
RECURSIVE TrimStart(_)
TrimStart(s) == IF s # <<>> /\ IsWhitespace(Head(s)) THEN TrimStart(Tail(s)) ELSE s
RECURSIVE TrimEnd(_)
TrimEnd(s) == IF s # <<>> /\ IsWhitespace(s[Len(s)])
              THEN TrimEnd(SubSeq(s, 1, Len(s) - 1)) ELSE s
Trim(s) == TrimEnd(TrimStart(s))

\* str::parse::<u32>: an optional '+', then one or more digits, folded with
\* checked multiplication and addition; ParseErr for Err(_)
RECURSIVE ParseDigits(_, _)
ParseDigits(s, acc) ==
    IF s = <<>> THEN acc
    ELSE IF ~IsDigit(Head(s)) THEN ParseErr
    ELSE IF acc > U32MaxDiv10 THEN ParseErr
    ELSE IF acc = U32MaxDiv10 /\ DigitVal(Head(s)) > U32MaxMod10 THEN ParseErr
    ELSE ParseDigits(Tail(s), acc * 10 + DigitVal(Head(s)))
ParseU32(s) ==
    IF s = <<>> THEN ParseErr
    ELSE LET d == IF Head(s) = "+" THEN Tail(s) ELSE s
         IN  IF d = <<>> THEN ParseErr ELSE ParseDigits(d, 0)

\* a write of data at offset 0 of a file: the bytes beyond it stay
WriteAt(content, data) ==
    data \o (IF Len(content) > Len(data)
             THEN SubSeq(content, Len(data) + 1, Len(content)) ELSE <<>>)

\* ------------------------------------------------------------------- state
VARIABLES
    alive,      \* the pids in the host's process table
    pc,         \* each pid's position
    ppid,       \* each pid's parent (NoPid: none)
    exe,        \* each pid's executable image: "self", "other", "none"
    arg1,       \* each pid's first argument: "agent", "startup", "run", "none"
    start,      \* each pid's start time
    snap,       \* the process table each guard run obtained (System::new_all)
    buf,        \* the content each guard run read from the pid file
    handle,     \* the inode each guard run has open for writing
    out,        \* the last line each running guard printed: "", "L66", "L74"
    path,       \* the inode <bin_folder>/.agent.pid names (NoInode: no file)
    ino,        \* the content of each inode
    exitAt,     \* where each exited process left: "" while it runs
    guardDone,  \* the running pids for which check_running_process has returned
    lp,         \* the position of the process in main's lines 110-191
    cfg,        \* its configmap: interval and log_type
    done,       \* the iterations the for loop of lines 138/168 has made
    entry,      \* its log_entry
    samples,    \* the raw samples update has folded since the last reset
    calls,      \* the calls on log_entry and the sink since the last reset
    emitted,    \* the records the sink has taken
    marker,     \* whether the stop-signal marker exists
    fault       \* the operation of the loop that failed ("": none)

loopVars == <<lp, cfg, done, entry, samples, calls, emitted, marker, fault>>

vars == <<alive, pc, ppid, exe, arg1, start, snap, buf, handle, out,
          path, ino, exitAt, guardDone, loopVars>>

procVars == <<ppid, exe, arg1, start>>
fileVars == <<handle, path, ino>>

\* ------------------------------------------------------------ configuration
\* the configmap fields main reads: interval (line 113), log_type (line 124)
Configs == [interval : 0..MaxInterval, log_type : {"file", "udp", "syslog"}]
DefaultConfig == [interval |-> 1, log_type |-> "file"]

\* (a loader that accepts whatever the file says)
ConfigValidAny(c) == TRUE

\* what get_configmap accepts: an interval of at least one second and a known
\* log type
ConfigValid(c) == c.interval >= 1 /\ c.log_type \in {"file", "udp"}

\* ---------------------------------------------------------------- log_entry
\* what one refresh of the metric source reads: the cpu usage and the
\* cumulative byte counters of the network interfaces
RawSamples == [cpu : {10, 20, 60}, rx : {0, 5}, tx : {0, 5}]

\* LogEntry::new / an entry after reset: nothing folded; cpu_avg is the
\* fraction <<numerator, denominator>>
EmptyEntry ==
    [sample_count |-> 0, cpu_sum |-> 0, cpu_min |-> 0, cpu_max |-> 0,
     rx_first |-> 0, rx_last |-> 0, tx_first |-> 0, tx_last |-> 0,
     cpu_avg |-> <<0, 1>>, net_rx_delta |-> 0, net_tx_delta |-> 0]

\* log_entry.update: running min / max / sum / count of the cpu, the first
\* and the latest network counters
Update(e, s) ==
    [e EXCEPT !.sample_count = @ + 1,
              !.cpu_sum = @ + s.cpu,
              !.cpu_min = IF e.sample_count = 0 \/ s.cpu < @ THEN s.cpu ELSE @,
              !.cpu_max = IF e.sample_count = 0 \/ s.cpu > @ THEN s.cpu ELSE @,
              !.rx_first = IF e.sample_count = 0 THEN s.rx ELSE @,
              !.rx_last = s.rx,
              !.tx_first = IF e.sample_count = 0 THEN s.tx ELSE @,
              !.tx_last = s.tx]

\* (a difference that is not clamped)
ClampZeroMissing(d) == d

\* a negative delta is clamped to zero
ClampZero(d) == IF d < 0 THEN 0 ELSE d

\* log_entry.finalize: the average as sum over sample_count (nothing when no
\* sample was folded), the deltas as last minus first, clamped
Finalize(e, interval) ==
    IF e.sample_count = 0 THEN e
    ELSE [e EXCEPT !.cpu_avg = <<e.cpu_sum, e.sample_count>>,
                   !.net_rx_delta = ClampZero(e.rx_last - e.rx_first),
                   !.net_tx_delta = ClampZero(e.tx_last - e.tx_first)]

\* log_entry.reset: back to the empty state
Reset(e) == EmptyEntry

\* no process has reached line 110
InitLoopVars ==
    /\ lp = "setup"
    /\ done = 0
    /\ entry = EmptyEntry
    /\ samples = <<>>
    /\ calls = <<>>
    /\ emitted = 0
    /\ marker = FALSE
    /\ fault = ""

\* content of the pid file left by the world before the first launch
GarbageRecord == <<"x", "\n">>
InitRecords == {<<>>, Writeln(StalePid), GarbageRecord}

\* what a process is: its image and its first argument
AgentKind == <<"self", "agent">>
Kinds == {AgentKind, <<"self", "startup">>, <<"self", "run">>,
          <<"other", "agent">>, <<"none", "none">>}

\* no guard has run yet; the pid file is absent, stale or garbage
InitRest ==
    /\ snap = [p \in Pids |-> {}]
    /\ buf = [p \in Pids |-> <<>>]
    /\ handle = [p \in Pids |-> NoInode]
    /\ out = [p \in Pids |-> ""]
    /\ exitAt = [p \in Pids |-> ""]
    /\ guardDone = {}
    /\ \E r \in InitRecords :
          IF r = <<>>
          THEN path = NoInode /\ ino = [k \in InoIds |-> <<>>]
          ELSE path = 1 /\ ino = [k \in InoIds |-> IF k = 1 THEN r ELSE <<>>]

\* nothing of this program runs, and the pid file is absent, stale or garbage
Init ==
    /\ alive = {}
    /\ pc = [p \in Pids |-> "none"]
    /\ ppid = [p \in Pids |-> NoPid]
    /\ exe = [p \in Pids |-> "none"]
    /\ arg1 = [p \in Pids |-> "none"]
    /\ start = [p \in Pids |-> 0]
    /\ InitRest
    /\ cfg = DefaultConfig
    /\ InitLoopVars

\* The host as a launch may find it: some processes already run, agent-mode
\* instances in their loops and foreign ones; the pid file is absent, stale,
\* garbage or names one of the running agents.
HostKinds == {AgentKind, <<"other", "agent">>}
InitHost ==
    /\ alive \in SUBSET HostPids
    /\ \E kind \in [HostPids -> HostKinds], st \in [HostPids -> 0..(MaxHost - 1)] :
         /\ exe = [p \in Pids |-> IF p \in alive THEN kind[p][1] ELSE "none"]
         /\ arg1 = [p \in Pids |-> IF p \in alive THEN kind[p][2] ELSE "none"]
         /\ start = [p \in Pids |->
                       IF p \in alive /\ kind[p] = AgentKind THEN st[p] ELSE 0]
    /\ pc = [p \in Pids |-> IF p \notin alive THEN "none"
                              ELSE IF exe[p] = "self" THEN "loop" ELSE "foreign"]
    /\ ppid = [p \in Pids |-> NoPid]
    /\ snap = [p \in Pids |-> {}]
    /\ buf = [p \in Pids |-> <<>>]
    /\ handle = [p \in Pids |-> NoInode]
    /\ out = [p \in Pids |-> ""]
    /\ exitAt = [p \in Pids |-> ""]
    /\ guardDone = {p \in alive : <<exe[p], arg1[p]>> = AgentKind}
    /\ cfg = DefaultConfig
    /\ InitLoopVars
    /\ \E r \in InitRecords \cup {Writeln(p) : p \in guardDone} :
          IF r = <<>>
          THEN path = NoInode /\ ino = [k \in InoIds |-> <<>>]
          ELSE path = 1 /\ ino = [k \in InoIds |-> IF k = 1 THEN r ELSE <<>>]

\* ------------------------------------------------------------ file system
Referenced(k, pth, h) == k = pth \/ \E q \in Pids : h[q] = k

\* an inode no path and no open handle refers to is gone
GC(i, pth, h) == [k \in InoIds |-> IF Referenced(k, pth, h) THEN i[k] ELSE <<>>]

\* the inode a newly created file gets
NewIno == CHOOSE k \in InoIds :
            /\ ~Referenced(k, path, handle)
            /\ \A j \in InoIds : j < k => Referenced(j, path, handle)

\* the OwnershipRecord: the content of the pid file (only when path # NoInode)
Record == ino[path]

\* --------------------------------------------------- candidate selection
\* std::env::current_exe() of a process running this program
Executable(p) == exe[p]

\* (a filter that leaves out the parent of the current process instead of its
\* children)
IsMatchingParentOfCurrent(p, q) ==
    /\ q.pid # p
    /\ q.pid # ppid[p]
    /\ (IF q.exe = "none" THEN FALSE ELSE q.exe = Executable(p))
    /\ (IF q.cmd1 = "none" THEN FALSE ELSE q.cmd1 = "agent")

\* lines 31-34: the filter of the scan over system.processes()
\* (p the current pid, q an entry of its process table)
IsMatching(p, q) ==
    /\ q.pid # p
    /\ (IF q.parent = NoPid THEN TRUE ELSE q.parent # p)
    /\ (IF q.exe = "none" THEN FALSE ELSE q.exe = Executable(p))
    /\ (IF q.cmd1 = "none" THEN FALSE ELSE q.cmd1 = "agent")

\* lines 29-39: matching_processes, a Vec of (pid, start_time)
RECURSIVE ScanProcesses(_, _)
ScanProcesses(p, S) ==
    IF S = {} THEN <<>>
    ELSE LET q == CHOOSE x \in S : TRUE
             rest == ScanProcesses(p, S \ {q})
         IN  IF IsMatching(p, q)
             THEN <<[pid |-> q.pid, start_time |-> q.start_time]>> \o rest
             ELSE rest
MatchingProcesses(p) == ScanProcesses(p, snap[p])

\* (a key with its components swapped: (pid, start_time))
KeyLessPidFirst(a, b) ==
    \/ a.pid < b.pid
    \/ a.pid = b.pid /\ a.start_time < b.start_time

\* line 43: the key (start_time, pid), compared as a tuple
KeyLess(a, b) ==
    \/ a.start_time < b.start_time
    \/ a.start_time = b.start_time /\ a.pid < b.pid

\* Iterator::min_by_key on a non-empty sequence: the first of the least
RECURSIVE MinByKeyFrom(_, _)
MinByKeyFrom(best, s) ==
    IF s = <<>> THEN best
    ELSE MinByKeyFrom(IF KeyLess(Head(s), best) THEN Head(s) ELSE best, Tail(s))
MinByKey(s) == MinByKeyFrom(Head(s), Tail(s))

\* ------------------------------------------------------------ exit status
\* the status of a process that left at `why`: process::exit(0) at lines 47,
\* 64 and 103, process::exit(1) at line 58 and on a configuration error, 101
\* for a panic of expect, 0 when main returns (line 193); -1 while it runs,
\* when it was killed, and for the exit of check_stopswitch, whose status
\* main.rs does not set
LoopPanics == {"panic119", "panic129", "panic159", "panic134", "panic164",
               "panic147", "panic150", "panic178", "panic184", "panic188"}
ExitStatus(why) ==
    CASE why \in {"L47", "L64", "L103", "L193"} -> 0
      [] why \in {"L58", "config"} -> 1
      [] why \in {"panic53", "panic57", "panic71"} \cup LoopPanics -> 101
      [] OTHER -> -1
ExitCode(p) == ExitStatus(exitAt[p])

\* the process leaves: its entry in the process table, its memory and its
\* handle go
TerminateProc(p, why, newPath, newIno) ==
    /\ pc' = [pc EXCEPT ![p] = "exited"]
    /\ exitAt' = [exitAt EXCEPT ![p] = why]
    /\ alive' = alive \ {p}
    /\ ppid' = [ppid EXCEPT ![p] = NoPid]
    /\ exe' = [exe EXCEPT ![p] = "none"]
    /\ arg1' = [arg1 EXCEPT ![p] = "none"]
    /\ start' = [start EXCEPT ![p] = 0]
    /\ snap' = [snap EXCEPT ![p] = {}]
    /\ buf' = [buf EXCEPT ![p] = <<>>]
    /\ out' = [out EXCEPT ![p] = ""]
    /\ guardDone' = guardDone \ {p}
    /\ handle' = [handle EXCEPT ![p] = NoInode]
    /\ path' = newPath
    /\ ino' = GC(newIno, newPath, [handle EXCEPT ![p] = NoInode])

\* the same, from main's dispatch or from check_running_process
Terminate(p, why, newPath, newIno) ==
    TerminateProc(p, why, newPath, newIno) /\ UNCHANGED loopVars

\* ------------------------------------------------------------- environment
\* the processes a scan can select: the agent-mode instances of this program
Agents == {q \in alive : <<exe[q], arg1[q]>> = AgentKind}

\* A process starts at time t; the host's clock does not run backwards, so t
\* is no earlier than the start of any running process (and, only the order of
\* start times being read, at most a second later).  The scan reads the
\* parent and the start time only of entries that pass its image and argument
\* tests, so they are kept for agent-mode instances alone.
Launch(p, k, par, t) ==
    /\ pc[p] = "none"
    /\ IF k = AgentKind
       THEN /\ \A q \in alive : start[q] <= t
            /\ t = 0 \/ \E q \in alive : t <= start[q] + 1
       ELSE par = NoPid /\ t = 0
    /\ alive' = alive \cup {p}
    /\ ppid' = [ppid EXCEPT ![p] = par]
    /\ exe' = [exe EXCEPT ![p] = k[1]]
    /\ arg1' = [arg1 EXCEPT ![p] = k[2]]
    /\ start' = [start EXCEPT ![p] = t]
    /\ pc' = [pc EXCEPT ![p] = IF k[1] = "self" THEN "main" ELSE "foreign"]
    /\ UNCHANGED <<loopVars, snap, buf, out, fileVars, exitAt, guardDone>>

\* a process of this program is killed or crashes, wherever it is
Kill(p) ==
    /\ p \in alive
    /\ pc[p] # "foreign"
    /\ Terminate(p, "killed", path, ino)

\* -------------------------------------------------------------------- main
\* modules::config::get_configmap: a configuration error is fatal at startup
GetConfigmapOutcomes == {"ok", "error"}

\* sysinfo's view of the host: one entry per running process
ProcessInfo(q) == [pid |-> q, parent |-> ppid[q], exe |-> exe[q],
                   cmd1 |-> arg1[q], start_time |-> start[q]]
ProcessTable == {ProcessInfo(q) : q \in alive}

\* main, lines 82-107: the arguments, the configuration and the dispatch on
\* args[1]: "startup" writes its record and exits (lines 91-103); "agent"
\* calls check_running_process, whose first act is to query the process table
\* (lines 17-18); any other mode goes on to the set-up of lines 110-130 and
\* into the loop.
Main(p) ==
    /\ pc[p] = "main"
    /\ \E c \in GetConfigmapOutcomes :
         /\ c = "ok" => ConfigValid(cfg)
         /\ IF c = "error"
            THEN Terminate(p, "config", path, ino)
            ELSE IF arg1[p] = "startup"
            THEN Terminate(p, "L103", path, ino)
            ELSE /\ pc' = [pc EXCEPT ![p] =
                              IF arg1[p] = "agent" THEN "exists" ELSE "loop"]
                 /\ snap' = [snap EXCEPT ![p] =
                                IF arg1[p] = "agent" THEN ProcessTable ELSE {}]
                 /\ UNCHANGED <<loopVars, alive, procVars, buf, out, fileVars,
                                exitAt, guardDone>>

\* --------------------------------------------------- check_running_process
\* line 20: Path::new(pid_file).exists()
CheckExists(p) ==
    /\ pc[p] = "exists"
    /\ pc' = [pc EXCEPT ![p] = IF path = NoInode THEN "create" ELSE "read"]
    /\ UNCHANGED <<loopVars, alive, procVars, snap, buf, out, fileVars, exitAt, guardDone>>

\* lines 22-27: open with write, create, truncate
CreateFile(p) ==
    /\ pc[p] = "create"
    /\ LET k == IF path = NoInode THEN NewIno ELSE path
       IN  /\ path' = k
           /\ ino' = [ino EXCEPT ![k] = <<>>]
           /\ handle' = [handle EXCEPT ![p] = k]
    /\ pc' = [pc EXCEPT ![p] = "scan"]
    /\ UNCHANGED <<loopVars, alive, procVars, snap, buf, out, exitAt, guardDone>>

\* (a choice of the first match instead of the oldest)
ScanDataFirstMatch(p) ==
    LET m == MatchingProcesses(p)
    IN  IF m # <<>> THEN Writeln(Head(m).pid) ELSE Writeln(p)

\* lines 45-46 and 49: what the no-record branch writes
ScanData(p) ==
    LET m == MatchingProcesses(p)
    IN  IF m # <<>> THEN Writeln(MinByKey(m).pid) ELSE Writeln(p)

\* lines 29-50: the scan, the choice of the oldest, the write; on return main
\* goes on to the set-up of lines 110-130 and into the loop
ScanWrite(p) ==
    /\ pc[p] = "scan"
    /\ LET newIno == [ino EXCEPT ![handle[p]] = WriteAt(@, ScanData(p))]
       IN  IF MatchingProcesses(p) # <<>>
           THEN Terminate(p, "L47", path, newIno)
           ELSE /\ pc' = [pc EXCEPT ![p] = "loop"]
                /\ handle' = [handle EXCEPT ![p] = NoInode]
                /\ ino' = GC(newIno, path, [handle EXCEPT ![p] = NoInode])
                /\ guardDone' = guardDone \cup {p}
                /\ snap' = [snap EXCEPT ![p] = {}]
                /\ UNCHANGED <<loopVars, alive, procVars, buf, out, path, exitAt>>

\* line 53: fs::read_to_string
ReadRecord(p) ==
    /\ pc[p] = "read"
    /\ IF path = NoInode
       THEN Terminate(p, "panic53", path, ino)
       ELSE /\ buf' = [buf EXCEPT ![p] = Record]
            /\ pc' = [pc EXCEPT ![p] = "decide"]
            /\ UNCHANGED <<loopVars, alive, procVars, snap, out, fileVars, exitAt, guardDone>>

\* line 54: content.trim().parse::<u32>()
OldPid(p) == ParseU32(Trim(buf[p]))

\* (is_none in place of is_some)
IsNotInTable(p, pid) == \A q \in snap[p] : q.pid # pid

\* line 62: system.process(Pid::from_u32(old_pid)).is_some()
IsRunning(p, pid) == \E q \in snap[p] : q.pid = pid

\* (a removal that does nothing)
RemoveFileKeeps == path

\* line 57: fs::remove_file leaves the path naming nothing
RemoveFile == NoInode

\* lines 54-66: parse, then delete and fail, or defer, or go on to take over
Decide(p) ==
    /\ pc[p] = "decide"
    /\ IF OldPid(p) = ParseErr
       THEN IF path = NoInode
            THEN Terminate(p, "panic57", path, ino)
            ELSE Terminate(p, "L58", RemoveFile, ino)
       ELSE IF IsRunning(p, OldPid(p))
       THEN Terminate(p, "L64", path, ino)
       ELSE /\ pc' = [pc EXCEPT ![p] = "reopen"]
            /\ out' = [out EXCEPT ![p] = "L66"]
            /\ snap' = [snap EXCEPT ![p] = {}]
            /\ buf' = [buf EXCEPT ![p] = <<>>]
            /\ UNCHANGED <<loopVars, alive, procVars, fileVars, exitAt, guardDone>>

\* lines 67-71: open with write, truncate (no create)
Reopen(p) ==
    /\ pc[p] = "reopen"
    /\ IF path = NoInode
       THEN Terminate(p, "panic71", path, ino)
       ELSE /\ ino' = [ino EXCEPT ![path] = <<>>]
            /\ handle' = [handle EXCEPT ![p] = path]
            /\ pc' = [pc EXCEPT ![p] = "write"]
            /\ UNCHANGED <<loopVars, alive, procVars, snap, buf, out, path, exitAt, guardDone>>

\* (the parent's pid in place of the own)
ParentProcessId(p) == ppid[p]

\* line 72: process::id()
ProcessId(p) == p

\* lines 72-76: write the own pid, return (main goes on into the loop)
WriteOwn(p) ==
    /\ pc[p] = "write"
    /\ LET newIno == [ino EXCEPT ![handle[p]] = WriteAt(@, Writeln(ProcessId(p)))]
       IN  /\ handle' = [handle EXCEPT ![p] = NoInode]
           /\ ino' = GC(newIno, path, [handle EXCEPT ![p] = NoInode])
    /\ pc' = [pc EXCEPT ![p] = "loop"]
    /\ out' = [out EXCEPT ![p] = "L74"]
    /\ guardDone' = guardDone \cup {p}
    /\ UNCHANGED <<loopVars, alive, procVars, snap, buf, path, exitAt>>

\* ------------------------------------------------------- the sampling loop
\* a process leaves from the loop part of main because `what` failed
LoopExit(p, why, what) ==
    /\ TerminateProc(p, why, path, ino)
    /\ fault' = what
    /\ UNCHANGED <<lp, cfg, done, entry, samples, calls, emitted, marker>>

\* lines 110-130 and 157-159: the set-up (the clock, LogEntry::new) and the
\* choice and opening of the sink; with a log_type that is neither "file" nor
\* "udp" main returns
LoopStart(p) ==
    /\ pc[p] = "loop"
    /\ lp = "setup"
    /\ \E o \in {"ok", "clock", "open"} :
         IF o = "clock" THEN LoopExit(p, "panic119", o)
         ELSE IF cfg.log_type \notin {"file", "udp"} THEN LoopExit(p, "L193", "")
         ELSE IF o = "open"
         THEN LoopExit(p, IF cfg.log_type = "file" THEN "panic129" ELSE "panic159", o)
         ELSE /\ lp' = "iter"
              /\ entry' = EmptyEntry
              /\ UNCHANGED <<alive, pc, procVars, snap, buf, out, fileVars, exitAt,
                             guardDone, cfg, done, samples, calls, emitted, marker,
                             fault>>

\* lines 132-136 / 162-166: the timestamp and the uptime of the interval
BeginInterval(p) ==
    /\ pc[p] = "loop"
    /\ lp = "iter"
    /\ emitted < MaxEmit
    /\ \E o \in {"ok", "clock"} :
         IF o = "clock"
         THEN LoopExit(p, IF cfg.log_type = "file" THEN "panic134" ELSE "panic164", o)
         ELSE /\ lp' = "sample"
              /\ done' = 0
              /\ calls' = <<>>
              /\ UNCHANGED <<alive, pc, procVars, snap, buf, out, fileVars, exitAt,
                             guardDone, cfg, entry, samples, emitted, marker, fault>>

\* (for _ in 0..=interval)
ForLoopDoneInclusive(d, interval) == d > interval

\* lines 138 / 168: for _ in 0..interval
ForLoopDone(d, interval) == d >= interval

\* lines 139-142 / 169-172: refresh, update, sleep one second
Sample(p) ==
    /\ pc[p] = "loop"
    /\ lp = "sample"
    /\ ~ForLoopDone(done, cfg.interval)
    /\ \E s \in RawSamples :
         /\ entry' = Update(entry, s)
         /\ samples' = Append(samples, s)
    /\ calls' = Append(calls, "update")
    /\ done' = done + 1
    /\ UNCHANGED <<alive, pc, procVars, snap, buf, out, fileVars, exitAt, guardDone,
                   lp, cfg, emitted, marker, fault>>

\* lines 145 / 175: log_entry.finalize(interval)
FinalizeEntry(p) ==
    /\ pc[p] = "loop"
    /\ lp = "sample"
    /\ ForLoopDone(done, cfg.interval)
    /\ entry' = Finalize(entry, cfg.interval)
    /\ calls' = Append(calls, "finalize")
    /\ lp' = "emit"
    /\ UNCHANGED <<alive, pc, procVars, snap, buf, out, fileVars, exitAt, guardDone,
                   cfg, done, samples, emitted, marker, fault>>

\* what handing a record to the sink can come to: lines 147-150 (write_json,
\* write_all, flush) and lines 178-188 (write_json, resolve, send_to)
SinkOutcomes(log_type) ==
    IF log_type = "file" THEN {"ok", "write", "flush"}
    ELSE {"ok", "serialize", "resolve", "send"}

\* the line whose expect fails
SinkPanic(log_type, o) ==
    CASE o = "write" -> "panic147"
      [] o = "flush" -> "panic150"
      [] o = "serialize" -> "panic178"
      [] o = "resolve" -> "panic184"
      [] OTHER -> "panic188"

\* the calls an emission makes on the sink: the file sink is written to
\* first; send_to is called once the record is serialized and the address
\* resolved
SinkCalls(log_type, o) ==
    IF log_type = "file" THEN <<"write">>
    ELSE IF o \in {"ok", "send"} THEN <<"send_to">> ELSE <<>>

\* (a failure that is logged and passed over)
ExpectIgnores(o) == FALSE

\* Result::expect: Err panics
Expect(o) == o # "ok"

\* lines 147-150 / 177-188: the record goes to the sink
Emit(p) ==
    /\ pc[p] = "loop"
    /\ lp = "emit"
    /\ \E o \in SinkOutcomes(cfg.log_type) :
         IF Expect(o)
         THEN /\ TerminateProc(p, SinkPanic(cfg.log_type, o), path, ino)
              /\ fault' = o
              /\ calls' = calls \o SinkCalls(cfg.log_type, o)
              /\ UNCHANGED <<lp, cfg, done, entry, samples, emitted, marker>>
         ELSE /\ lp' = "reset"
              /\ fault' = IF o = "ok" THEN "" ELSE o
              /\ calls' = calls \o SinkCalls(cfg.log_type, o)
              /\ emitted' = IF o = "ok" THEN emitted + 1 ELSE emitted
              /\ UNCHANGED <<alive, pc, procVars, snap, buf, out, fileVars, exitAt,
                             guardDone, cfg, done, entry, samples, marker>>

\* (no call of reset)
AfterEmitKeeps(e) == e

\* lines 151 / 189: log_entry.reset()
AfterEmit(e) == Reset(e)

ResetEntry(p) ==
    /\ pc[p] = "loop"
    /\ lp = "reset"
    /\ entry' = AfterEmit(entry)
    /\ samples' = <<>>
    /\ calls' = Append(calls, "reset")
    /\ lp' = "stop"
    /\ UNCHANGED <<alive, pc, procVars, snap, buf, out, fileVars, exitAt, guardDone,
                   cfg, done, emitted, marker, fault>>

\* (a watchdog that never asks for the stop)
StopRequestedNever(m) == FALSE

\* modules::startup::check_stopswitch: the marker's existence is the signal
StopRequested(m) == m

\* lines 153-154 / 190: check_stopswitch, which exits when the marker is
\* there, then (file sink) check_log_file_size; then the next iteration
CheckStopswitch(p) ==
    /\ pc[p] = "loop"
    /\ lp = "stop"
    /\ IF StopRequested(marker)
       THEN /\ TerminateProc(p, "stop", path, ino)
            /\ calls' = Append(calls, "check_stopswitch")
            /\ UNCHANGED <<lp, cfg, done, entry, samples, emitted, marker, fault>>
       ELSE /\ lp' = "iter"
            /\ calls' = Append(calls, "check_stopswitch")
            /\ UNCHANGED <<alive, pc, procVars, snap, buf, out, fileVars, exitAt,
                           guardDone, cfg, done, entry, samples, emitted, marker,
                           fault>>

\* somebody creates the stop-signal marker while the loop runs
CreateMarker ==
    /\ ~marker
    /\ \E p \in LaunchPids : pc[p] = "loop"
    /\ marker' = TRUE
    /\ UNCHANGED <<alive, pc, procVars, snap, buf, out, fileVars, exitAt, guardDone,
                   lp, cfg, done, entry, samples, calls, emitted, fault>>

\* something else removes the pid file while a guard runs
UnlinkPidFile ==
    /\ path # NoInode
    /\ \E p \in LaunchPids : pc[p] \in {"read", "decide", "reopen"}
    /\ path' = NoInode
    /\ ino' = GC(ino, NoInode, handle)
    /\ UNCHANGED <<loopVars, alive, pc, procVars, snap, buf, out, handle, exitAt,
                   guardDone>>

LoopStep(p) ==
    \/ LoopStart(p)
    \/ BeginInterval(p)
    \/ Sample(p)
    \/ FinalizeEntry(p)
    \/ Emit(p)
    \/ ResetEntry(p)
    \/ CheckStopswitch(p)

\* ----------------------------------------------------------- specification
Step(p) ==
    \/ Main(p)
    \/ CheckExists(p)
    \/ CreateFile(p)
    \/ ScanWrite(p)
    \/ ReadRecord(p)
    \/ Decide(p)
    \/ Reopen(p)
    \/ WriteOwn(p)

\* the kernel hands out the pids in the order of LaunchTable
NextLaunchPid(p) ==
    \E i \in 1..MaxProcs :
        /\ p = LaunchTable[i]
        /\ \A j \in 1..(i - 1) : pc[LaunchTable[j]] # "none"

Next ==
    \/ \E p \in LaunchPids, k \in Kinds, par \in Agents \cup {NoPid}, t \in Times :
          NextLaunchPid(p) /\ Launch(p, k, par, t)
    \/ \E p \in Pids : Kill(p)
    \/ \E p \in LaunchPids : Step(p)

Spec == Init /\ [][Next]_vars

\* Agent-mode launches one after the other: no process is launched or killed
\* while another is between its start and the end of its guard.
InGuard(p) == pc[p] \in {"main", "exists", "create", "scan", "read", "decide",
                         "reopen", "write"}
Quiet(p) == \A q \in Pids \ {p} : ~InGuard(q)

NextSeq ==
    \/ \E p \in LaunchPids, t \in Times :
          NextLaunchPid(p) /\ Quiet(p) /\ Launch(p, AgentKind, NoPid, t)
    \/ \E p \in Pids : Quiet(p) /\ Kill(p)
    \/ \E p \in LaunchPids : Step(p)

SpecSeq == InitHost /\ [][NextSeq]_vars

\* Launches on a host where no agent runs and no pid file exists.
InitFresh == Init /\ path = NoInode

SpecFresh == InitFresh /\ [][Next]_vars

\* One process through the whole of main: any mode, any configuration the
\* file may hold, and the loop with its sink and its watchdog.
LoopPid == LaunchTable[1]
SelfKinds == {k \in Kinds : k[1] = "self"}

InitLoop ==
    /\ alive = {}
    /\ pc = [p \in Pids |-> "none"]
    /\ ppid = [p \in Pids |-> NoPid]
    /\ exe = [p \in Pids |-> "none"]
    /\ arg1 = [p \in Pids |-> "none"]
    /\ start = [p \in Pids |-> 0]
    /\ InitRest
    /\ cfg \in Configs
    /\ InitLoopVars

NextLoop ==
    \/ \E kind \in SelfKinds : Launch(LoopPid, kind, NoPid, 0)
    \/ Step(LoopPid)
    \/ LoopStep(LoopPid)
    \/ CreateMarker
    \/ UnlinkPidFile

SpecLoop == InitLoop /\ [][NextLoop]_vars

\* ================================================================== claims
\* a guard run of p leaves position `at` by a step of its own
Acts(p, at) == pc[p] = at /\ pc'[p] # at /\ exitAt'[p] # "killed"

\* the processes that returned from check_running_process and run the loop
Owners == {p \in Pids : pc[p] = "loop" /\ p \in guardDone}

\* the entries of p's process table that are other agent-mode instances of the
\* same image and not children of p
CandidatesOf(p) ==
    {q \in snap[p] : q.pid # p /\ q.parent # p /\ q.exe = exe[p] /\ q.cmd1 = "agent"}

\* c has the earliest start time of S, the smallest pid among equals
Earliest(c, S) ==
    /\ c \in S
    /\ \A d \in S : \/ c.start_time < d.start_time
                    \/ c.start_time = d.start_time /\ c.pid <= d.pid

\* s is the decimal text of n and one newline
IsPidLine(s, n) ==
    /\ Len(s) >= 2
    /\ s[Len(s)] = "\n"
    /\ \A i \in 1..(Len(s) - 1) : IsDigit(s[i])
    /\ ParseU32(SubSeq(s, 1, Len(s) - 1)) = n

\* s is, between leading and trailing whitespace, an optional '+' and digits
LooksNumeric(s) ==
    \E a \in 0..Len(s), b \in 0..Len(s) :
        /\ a < b
        /\ \A i \in 1..a : IsWhitespace(s[i])
        /\ \A i \in (b + 1)..Len(s) : IsWhitespace(s[i])
        /\ \A i \in (a + 2)..b : IsDigit(s[i])
        /\ IsDigit(s[a + 1]) \/ (s[a + 1] = "+" /\ b > a + 1)

\* C1: at most one process at a time has returned from check_running_process
\* and runs the sampling loop.
C1_AtMostOneOwner == Cardinality(Owners) <= 1

\* C2: in the no-record branch, when the process table holds candidates, the
\* guard writes the id of the candidate with the earliest start time (the
\* smallest pid among equals) as the record and the process exits with status
\* 0, never entering the loop.
C2_OldestCandidateRecorded ==
    [][\A p \in LaunchPids :
         Acts(p, "scan") /\ CandidatesOf(p) # {} =>
            /\ \E c \in CandidatesOf(p) :
                  /\ Earliest(c, CandidatesOf(p))
                  /\ path' # NoInode
                  /\ IsPidLine(Record', c.pid)
            /\ pc'[p] = "exited"
            /\ exitAt'[p] = "L47"
            /\ ExitStatus(exitAt'[p]) = 0]_vars

\* two candidates of different age, the older with the larger pid, and a
\* launch that recorded the older and left at line 47
C2_Witness ==
    \E p \in LaunchPids, a \in guardDone, b \in guardDone :
        /\ start[a] < start[b]
        /\ a > b
        /\ exitAt[p] = "L47"
        /\ path # NoInode
        /\ Record = Writeln(a)

\* C3 as stated: the candidates are the entries that are not the current
\* process, not the parent of the current process, of the same image and in
\* agent mode.
C3_ParentNeverCandidate ==
    \A p \in LaunchPids :
        pc[p] = "scan" =>
            {m.pid : m \in {MatchingProcesses(p)[i] : i \in 1..Len(MatchingProcesses(p))}}
              = {q.pid : q \in {r \in snap[p] : /\ r.pid # p
                                                 /\ r.pid # ppid[p]
                                                 /\ r.exe = exe[p]
                                                 /\ r.cmd1 = "agent"}}

\* C3 amended: the candidates are the entries that are not the current
\* process, not children of the current process, of the same image and in
\* agent mode; the parent of the current process can be one.
C3_ChildrenNeverCandidates ==
    \A p \in LaunchPids :
        pc[p] = "scan" =>
            {m.pid : m \in {MatchingProcesses(p)[i] : i \in 1..Len(MatchingProcesses(p))}}
              = {q.pid : q \in CandidatesOf(p)}

\* a scan whose table holds an agent-mode child of the current process
C3_Witness ==
    \E p \in LaunchPids :
        /\ pc[p] = "scan"
        /\ \E q \in snap[p] : q.parent = p /\ q.exe = exe[p] /\ q.cmd1 = "agent"

\* C4: when the record read parses as a pid and the process table the guard
\* obtained holds a process with that pid, the process exits with status 0 and
\* the pid file is left as it is.
C4_DefersToRunningOwner ==
    [][\A p \in LaunchPids :
         Acts(p, "decide")
           /\ (\E q \in snap[p] : IsPidLine(Trim(buf[p]) \o <<"\n">>, q.pid)) =>
            /\ pc'[p] = "exited"
            /\ ExitStatus(exitAt'[p]) = 0
            /\ path' = path
            /\ ino' = ino]_vars

\* a launch that left at line 64 with the record naming another running process
C4_Witness ==
    \E p \in LaunchPids, q \in alive :
        /\ exitAt[p] = "L64"
        /\ path # NoInode
        /\ Record = Writeln(q)

\* C5: when the record names a process that is not running, the guard
\* overwrites it with exactly the current pid and returns, and the process
\* goes on into the loop (launches one after the other).
C5_TakesOverStaleRecord ==
    [][\A p \in LaunchPids :
         /\ Acts(p, "decide") /\ LooksNumeric(buf[p])
              /\ (\A q \in alive : ~IsPidLine(Trim(buf[p]) \o <<"\n">>, q)) =>
                 pc'[p] = "reopen"
         /\ Acts(p, "reopen") => pc'[p] = "write"
         /\ Acts(p, "write") =>
                 /\ path' # NoInode
                 /\ IsPidLine(Record', p)
                 /\ pc'[p] = "loop"
                 /\ p \in guardDone'
                 /\ p \in alive']_vars

\* a launch that found the record stale, wrote its own pid (line 74) and runs
\* the loop
C5_Witness ==
    \E p \in LaunchPids :
        /\ pc[p] = "loop"
        /\ out[p] = "L74"
        /\ path # NoInode
        /\ Record = Writeln(p)

\* C6: when the record read does not parse as a pid, the guard deletes the pid
\* file and the process exits with a non-zero status, writing nothing and
\* never entering the loop.
C6_CorruptRecordDeleted ==
    [][\A p \in LaunchPids :
         Acts(p, "decide") /\ ~LooksNumeric(buf[p]) =>
            /\ path' = NoInode
            /\ pc'[p] = "exited"
            /\ ExitStatus(exitAt'[p]) \notin {0, -1}
            /\ \A k \in InoIds : ino'[k] = ino[k] \/ ino'[k] = <<>>]_vars

\* a launch that read garbage or an empty file and left at line 58, the file gone
C6_Witness ==
    \E p \in LaunchPids : exitAt[p] = "L58" /\ path = NoInode

\* C7: after a launch that found the record corrupt and deleted it, the next
\* launch recreates the record with a valid pid: its own when it finds no
\* candidate, and it then goes on as owner, otherwise the oldest candidate's
\* (launches one after the other).
C7_NextLaunchHeals ==
    [][\A p \in LaunchPids :
         Acts(p, "scan") /\ (\E q \in LaunchPids : exitAt[q] = "L58") =>
            /\ path' # NoInode
            /\ IF CandidatesOf(p) = {}
               THEN /\ IsPidLine(Record', p)
                    /\ pc'[p] = "loop"
                    /\ p \in guardDone'
               ELSE /\ \E c \in CandidatesOf(p) :
                          Earliest(c, CandidatesOf(p)) /\ IsPidLine(Record', c.pid)]_vars

\* one launch left at line 58, and the next created the record anew with its
\* own pid and runs the loop
C7_Witness ==
    \E q \in LaunchPids, p \in LaunchPids :
        /\ exitAt[q] = "L58"
        /\ pc[p] = "loop"
        /\ p \in guardDone
        /\ out[p] = ""
        /\ path # NoInode
        /\ Record = Writeln(p)

\* C8: whenever the pid file exists and is not the garbage the world left, its
\* content is the decimal id of a process that runs or once ran.
C8_RecordAlwaysValid ==
    path # NoInode /\ Record # GarbageRecord =>
        ParseU32(Trim(Record)) \in Pids \cup {StalePid}

\* C9: with no record and no candidate, and launches one after the other, the
\* pid file exists and holds exactly the current pid when the guard returns,
\* and the process goes on into the loop.
C9_ClaimsOwnership ==
    [][\A p \in LaunchPids :
         Acts(p, "scan") /\ CandidatesOf(p) = {} =>
            /\ path' # NoInode
            /\ IsPidLine(Record', p)
            /\ pc'[p] = "loop"
            /\ p \in guardDone'
            /\ p \in alive']_vars

\* the only agent on the host created the record with its own pid and runs the
\* loop
C9_Witness ==
    \E p \in LaunchPids :
        /\ pc[p] = "loop"
        /\ p \in guardDone
        /\ out[p] = ""
        /\ Agents = {p}
        /\ path # NoInode
        /\ Record = Writeln(p)

\* C10: the loop is entered only by a process for which check_running_process
\* has returned.
C10_LoopOnlyAfterGuard ==
    \A p \in Pids : pc[p] = "loop" => p \in guardDone

\* C11: with a configured interval of 0 the process is rejected before the
\* sampling loop starts: it never reaches line 110, makes no call on the
\* log entry or the sink and emits no record.
C11_ZeroIntervalRejected ==
    cfg.interval = 0 =>
        /\ \A p \in Pids : pc[p] # "loop"
        /\ lp = "setup"
        /\ calls = <<>>
        /\ samples = <<>>
        /\ emitted = 0

\* a process launched with interval 0 left with the status of a configuration
\* error
C11_Witness ==
    /\ cfg.interval = 0
    /\ pc[LoopPid] = "exited"
    /\ exitAt[LoopPid] = "config"
    /\ ExitCode(LoopPid) = 1

\* the process in the loop hands the record to the sink in this step
HandsToSink == lp = "emit" /\ calls' # calls

\* C12: every record handed to the sink, file or udp, has had at least one
\* update folded into it since the last reset.
C12_NoEmptyRecordEmitted ==
    [][HandsToSink =>
          /\ samples # <<>>
          /\ entry.sample_count >= 1
          /\ \E i \in 1..Len(calls) : calls[i] = "update"]_vars

\* a record went to the sink with samples folded into it
C12_Witness ==
    /\ lp = "reset"
    /\ emitted >= 1
    /\ samples # <<>>
    /\ entry.sample_count = Len(samples)

\* the calls of one whole iteration, in order: interval updates, one
\* finalize, one emission, one reset, one check of the stop switch
IterationCalls ==
    [i \in 1..cfg.interval |-> "update"]
        \o <<"finalize", IF cfg.log_type = "file" THEN "write" ELSE "send_to",
             "reset", "check_stopswitch">>

IsPrefix(s, t) == Len(s) <= Len(t) /\ \A i \in 1..Len(s) : s[i] = t[i]

\* C13: in every iteration, file or udp, the calls come in the order:
\* exactly interval updates, one finalize, one emission, one reset; finalize
\* finds a sample count equal to the number of updates since the last reset;
\* one record is emitted per interval.
C13_IterationOrder ==
    [][/\ IsPrefix(calls', IterationCalls)
       /\ lp = "sample" /\ lp' = "emit" =>
             /\ Len(samples) = cfg.interval
             /\ entry.sample_count = Len(samples)
             /\ entry'.sample_count = Len(samples)
             /\ entry'.cpu_avg[2] = Len(samples)
       /\ lp = "emit" /\ lp' = "reset" => emitted' = emitted + 1
       /\ lp = "reset" /\ lp' = "stop" =>
             /\ calls' = SubSeq(IterationCalls, 1, cfg.interval + 3)
             /\ entry'.sample_count = 0
             /\ samples' = <<>>]_vars

\* the second iteration of a two-second interval is through its reset
C13_Witness ==
    /\ cfg.interval = MaxInterval
    /\ emitted = MaxEmit
    /\ lp = "stop"
    /\ Len(calls) = cfg.interval + 3

\* C14: the stop-signal marker is consulted once per interval and only after
\* the interval's record went to the sink and the entry was reset: the
\* process never leaves because of the marker between the first sample and
\* the end of the write, and with the marker there at the check it leaves
\* before any sample of the next interval.
C14_StopOnlyAtBoundary ==
    [][/\ \A i \in 1..Len(calls') :
             calls'[i] = "check_stopswitch" => i = cfg.interval + 4
       /\ exitAt[LoopPid] = "" /\ exitAt'[LoopPid] = "stop" =>
             /\ lp = "stop"
             /\ marker
             /\ calls = SubSeq(IterationCalls, 1, cfg.interval + 3)
             /\ samples = <<>>
       /\ lp = "reset" /\ lp' # lp => lp' = "stop"
       /\ lp = "stop" /\ calls' # calls /\ marker =>
             /\ pc'[LoopPid] = "exited"
             /\ exitAt'[LoopPid] = "stop"
             /\ samples' = <<>>
             /\ emitted' = emitted]_vars

\* the marker was found after a record had been written, and the process left
C14_Witness ==
    /\ marker
    /\ emitted >= 1
    /\ pc[LoopPid] = "exited"
    /\ exitAt[LoopPid] = "stop"

SendCount(s) == Cardinality({i \in 1..Len(s) : s[i] = "send_to"})

\* C16 (as claimed): in udp mode, after a failed resolution or send the loop
\* goes on, so that the next interval's record is produced and sent in place
\* of the lost one.
C16_LoopSurvivesSendFailure ==
    cfg.log_type = "udp" /\ fault \in {"resolve", "send"} => pc[LoopPid] = "loop"

\* C16 (amended): in udp mode a failed resolution or send ends the process in
\* that step with the status of a panic; the record is not retried, no later
\* record is produced by that process, and each record is passed to send_to
\* at most once.
C16_SendFailureEndsProcess ==
    [][/\ cfg.log_type = "udp" /\ fault' \in {"resolve", "send"} =>
             /\ pc'[LoopPid] = "exited"
             /\ ExitStatus(exitAt'[LoopPid]) = 101
             /\ emitted' = emitted
       /\ fault \in {"resolve", "send"} =>
             /\ calls' = calls
             /\ emitted' = emitted
             /\ samples' = samples
       /\ SendCount(calls') <= 1]_vars

\* a send failed after an earlier datagram had gone out
C16_Witness ==
    /\ cfg.log_type = "udp"
    /\ fault = "send"
    /\ emitted >= 1
    /\ SendCount(calls) = 1
    /\ exitAt[LoopPid] = "panic188"

\* the process in the loop closes the interval's record in this step
Finalizes == lp = "sample" /\ lp' = "emit"

\* last minus first when that is not negative, otherwise 0
DeltaOf(first, last) == IF last >= first THEN last - first ELSE 0

\* C17: for every interval the finalized and emitted net_rx_delta and
\* net_tx_delta are the last sample's counter minus the first sample's when
\* that is not negative and 0 otherwise; they are never negative.
C17_NetDeltaClamped ==
    [][/\ Finalizes =>
             /\ entry'.net_rx_delta =
                   DeltaOf(samples[1].rx, samples[Len(samples)].rx)
             /\ entry'.net_tx_delta =
                   DeltaOf(samples[1].tx, samples[Len(samples)].tx)
       /\ HandsToSink =>
             /\ entry.net_rx_delta =
                   DeltaOf(samples[1].rx, samples[Len(samples)].rx)
             /\ entry.net_tx_delta =
                   DeltaOf(samples[1].tx, samples[Len(samples)].tx)
       /\ entry'.net_rx_delta >= 0
       /\ entry'.net_tx_delta >= 0]_vars

\* an interval whose receive counter fell back (a reset of the interface)
\* while the transmit counter grew, ready for the sink
C17_Witness ==
    /\ lp = "emit"
    /\ emitted >= 1
    /\ Len(samples) = 2
    /\ samples[1].rx > samples[2].rx
    /\ samples[1].tx < samples[2].tx
    /\ entry.net_rx_delta = 0
    /\ entry.net_tx_delta = samples[2].tx - samples[1].tx

\* the cpu readings of a sequence of samples, their sum and their set
RECURSIVE CpuSum(_)
CpuSum(s) == IF s = <<>> THEN 0 ELSE s[1].cpu + CpuSum(Tail(s))
CpuSet(s) == {s[i].cpu : i \in 1..Len(s)}

\* C18: the finalized cpu_avg is the arithmetic mean of the samples folded
\* between the last reset and the finalize, cpu_min and cpu_max their minimum
\* and maximum, whatever their order and whatever earlier intervals held.
C18_CpuAggregates ==
    [][Finalizes \/ HandsToSink =>
          LET e == IF Finalizes THEN entry' ELSE entry
          IN  /\ e.cpu_avg[2] > 0
              /\ e.cpu_avg[1] * Len(samples) = CpuSum(samples) * e.cpu_avg[2]
              /\ e.cpu_min \in CpuSet(samples)
              /\ \A c \in CpuSet(samples) : e.cpu_min <= c
              /\ e.cpu_max \in CpuSet(samples)
              /\ \A c \in CpuSet(samples) : c <= e.cpu_max]_vars

\* a later interval, its samples in falling order, ready for the sink
C18_Witness ==
    /\ lp = "emit"
    /\ emitted >= 1
    /\ Len(samples) = 2
    /\ samples[1].cpu = 60
    /\ samples[2].cpu = 10
    /\ entry.cpu_min = 10
    /\ entry.cpu_max = 60
    /\ entry.cpu_avg = <<70, 2>>

\* C19: agent-mode processes launched together with no pid file and no other
\* agent running never all leave by deferring to one another or by finding
\* the record corrupt: one of them goes on into the loop.
C19_SomeLaunchOwns ==
    ~(\A p \in LaunchPids :
         pc[p] = "exited" /\ exitAt[p] \in {"L47", "L64", "L58"})

\* C20: whenever a process exits with status 0 at line 64, the pid it read
\* from the record names a running process other than itself that is an
\* agent-mode instance of the same executable.
C20_DefersToLiveAgent ==
    [][\A p \in LaunchPids :
          Acts(p, "decide") /\ exitAt'[p] = "L64" =>
             \E q \in alive \ {p} :
                /\ IsPidLine(Trim(buf[p]) \o <<"\n">>, q)
                /\ exe[q] = exe[p]
                /\ arg1[q] = "agent"]_vars

====
